---------------------------- MODULE Spec2Model ----------------------------
(***************************************************************************)
(* Model of the schema derivation engine of swag: the scalar and format    *)
(* classifiers (package types), the property inspector, the field          *)
(* enumerator, the object definer and the graph closure builder            *)
(* (reflect.go).                                                           *)
(*                                                                         *)
(* A Go type is a non-empty sequence of strings: zero or more unnamed      *)
(* wrappers ("ptr", "slice", "array", "map") followed by the id of a base  *)
(* type (a builtin or a declared type), so <<"slice", "ptr", "Pet">> is    *)
(* []*Pet.  Base types live in the table Base, which plays the role of     *)
(* the host's reflection facility.                                         *)
(***************************************************************************)
EXTENDS Integers, Sequences, FiniteSets, TLC

VARIABLES ptMapping, pc, root, objMap, dirty, pending, cur, propsLeft,
          inserted, passInserted, run, prevGraph, call

vars == <<ptMapping, pc, root, objMap, dirty, pending, cur, propsLeft,
          inserted, passInserted, run, prevGraph, call>>

\* Largest number of unnamed wrappers around a base type in a type handed to
\* the classifiers.
MaxDepth == 2

\* Largest number of unnamed wrappers around a base type in a root type
\* handed to define.
MaxRootDepth == 1

(***************************************************************************)
(* types.ParameterType and types.Format                                    *)
(***************************************************************************)
Unknown == ""
Integer == "integer"
Number == "number"
String == "string"
Boolean == "boolean"
Array == "array"
Object == "object"

FormatNone == ""
FormatInt32 == "int32"
FormatInt64 == "int64"
FormatDouble == "double"
FormatFloat == "float"

(***************************************************************************)
(* The reflected type universe                                             *)
(***************************************************************************)
\* One struct field as reflect.StructField shows it.  First is Name[0:1];
\* json is the json tag split at its commas (<<>> is the empty tag);
\* enum is the enum tag split at its commas (<<>> is the empty tag).
Fld(name, first, type) ==
    [Name |-> name, First |-> first, Type |-> type, Anonymous |-> FALSE,
     json |-> <<>>, required |-> FALSE, example |-> "", description |-> "",
     desc |-> "", enum |-> <<>>]

Tagged(f, json) == [f EXCEPT !.json = json]
Req(f) == [f EXCEPT !.required = TRUE]
Embedded(f) == [f EXCEPT !.Anonymous = TRUE]

Builtin(kind) ==
    [kind |-> kind,
     str |-> CASE kind = "chan" -> "chan struct {}"
               [] kind = "func" -> "func()"
               [] kind = "interface" -> "interface {}"
               [] OTHER -> kind,
     name |-> kind, elem |-> <<>>, fields |-> <<>>]

Named(kind, str, name) ==
    [kind |-> kind, str |-> str, name |-> name, elem |-> <<>>, fields |-> <<>>]

Struct(str, name, fields) ==
    [kind |-> "struct", str |-> str, name |-> name, elem |-> <<>>,
     fields |-> fields]

BuiltinKinds ==
    {"bool", "int", "int8", "int16", "int32", "int64", "uint", "uint8",
     "uint16", "uint32", "uint64", "uintptr", "float32", "float64",
     "complex128", "string", "chan", "func", "interface"}

LeafFields == <<Fld("ID", "I", <<"int">>)>>

StructTypes ==
    [Pet |-> Struct("pkg.Pet", "Pet",
        <<Fld("Name", "N", <<"string">>),
          Req(Fld("Tags", "T", <<"slice", "string">>)),
          Fld("id", "i", <<"int64">>)>>),
     Node |-> Struct("pkg.Node", "Node",
        <<Fld("Val", "V", <<"int">>),
          Fld("Next", "N", <<"ptr", "Node">>),
          Fld("Kids", "K", <<"slice", "Node">>),
          Fld("Index", "I", <<"map", "Node">>)>>),
     Ping |-> Struct("pkg.Ping", "Ping",
        <<Tagged(Fld("Pong", "P", <<"ptr", "Pong">>), <<"pong", "omitempty">>)>>),
     Pong |-> Struct("pkg.Pong", "Pong",
        <<Fld("Pings", "P", <<"map", "slice", "Ping">>),
          Fld("Stamp", "S", <<"Time">>),
          Fld("Wait", "W", <<"Duration">>),
          Fld("Extra", "E", <<"ptr", "Special">>)>>),
     Time |-> Struct("time.Time", "Time",
        <<Fld("wall", "w", <<"uint64">>), Fld("ext", "e", <<"int64">>)>>),
     Special |-> Struct("pkg.Special", "Special",
        <<Fld("Raw", "R", <<"slice", "uint8">>)>>),
     Direct |-> Struct("pkg.Direct", "Direct",
        <<Fld("V", "V", <<"R1">>),
          Fld("P", "P", <<"ptr", "R2">>),
          Fld("S", "S", <<"slice", "R3">>),
          Fld("M", "M", <<"map", "R7">>)>>),
     Nested |-> Struct("pkg.Nested", "Nested",
        <<Fld("SP", "S", <<"slice", "ptr", "R4">>),
          Fld("SS", "S", <<"slice", "slice", "R5">>),
          Fld("SM", "S", <<"array", "map", "R6">>),
          Fld("MS", "M", <<"map", "slice", "R8">>)>>),
     R1 |-> Struct("pkg.R1", "R1", LeafFields),
     R2 |-> Struct("pkg.R2", "R2", LeafFields),
     R3 |-> Struct("pkg.R3", "R3", LeafFields),
     R4 |-> Struct("pkg.R4", "R4", LeafFields),
     R5 |-> Struct("pkg.R5", "R5", LeafFields),
     R6 |-> Struct("pkg.R6", "R6", LeafFields),
     R7 |-> Struct("pkg.R7", "R7", LeafFields),
     R8 |-> Struct("pkg.R8", "R8", LeafFields),
     Coerced |-> Struct("pkg.Coerced", "Coerced",
        <<Tagged(Fld("Count", "C", <<"int">>), <<"", "string">>),
          Tagged(Fld("Inner", "I", <<"R1">>), <<"inner", "string">>),
          Tagged(Fld("Hidden", "H", <<"string">>), <<"-">>),
          Tagged(Fld("Kept", "K", <<"float32">>), <<"", "omitempty">>),
          Fld("At", "A", <<"Time">>),
          [Fld("Mode", "M", <<"string">>) EXCEPT
              !.example = "fast", !.description = "long", !.desc = "short",
              !.enum = <<"fast", "slow">>]>>),
     Dup |-> Struct("pkg.Dup", "Dup",
        <<Req(Tagged(Fld("A", "A", <<"int">>), <<"x">>)),
          Req(Tagged(Fld("B", "B", <<"string">>), <<"x", "omitempty">>)),
          Req(Fld("C", "C", <<"bool">>))>>),
     Core |-> Struct("pkg.Core", "Core",
        <<Req(Fld("ID", "I", <<"int">>)), Fld("Owner", "O", <<"ptr", "Pet">>)>>),
     EmbedOK |-> Struct("pkg.EmbedOK", "EmbedOK",
        <<Embedded(Fld("Core", "C", <<"Core">>)),
          Req(Fld("Label", "L", <<"string">>))>>),
     EmbedPtr |-> Struct("pkg.EmbedPtr", "EmbedPtr",
        <<Fld("Label", "L", <<"string">>),
          Embedded(Fld("Core", "C", <<"ptr", "Core">>))>>),
     EmbedNamed |-> Struct("pkg.EmbedNamed", "EmbedNamed",
        <<Embedded(Fld("MyInt", "M", <<"MyInt">>))>>),
     Uses |-> Struct("pkg.Uses", "Uses",
        <<Fld("Ok", "O", <<"Pet">>), Fld("Bad", "B", <<"ptr", "EmbedPtr">>)>>),
     Clash |-> Struct("pkg.Clash", "Clash",
        <<Fld("First", "F", <<"aT">>), Fld("Second", "S", <<"bT">>)>>),
     aT |-> Struct("a.T", "T", <<Fld("X", "X", <<"int">>)>>),
     bT |-> Struct("b.T", "T", <<Fld("Y", "Y", <<"string">>)>>)]

NamedTypes ==
    [Duration |-> Named("int64", "time.Duration", "Duration"),
     JNumber |-> Named("string", "json.Number", "Number"),
     MyInt |-> Named("int", "pkg.MyInt", "MyInt"),
     Pets |-> [kind |-> "slice", str |-> "pkg.Pets", name |-> "Pets",
               elem |-> <<"Pet">>, fields |-> <<>>]]

BaseIds == BuiltinKinds \cup DOMAIN StructTypes \cup DOMAIN NamedTypes

Base ==
    [b \in BaseIds |->
        IF b \in BuiltinKinds THEN Builtin(b)
        ELSE IF b \in DOMAIN StructTypes THEN StructTypes[b]
        ELSE NamedTypes[b]]

Wrappers == {"ptr", "slice", "array", "map"}

\* reflect.Type.Kind, .Elem, .String, .NumField/.Field
Kind(t) == IF Len(t) > 1 THEN t[1] ELSE Base[t[1]].kind

Elem(t) == IF Len(t) > 1 THEN Tail(t) ELSE Base[t[1]].elem

RECURSIVE TypeString(_)
TypeString(t) ==
    IF Len(t) = 1 THEN Base[t[1]].str
    ELSE CASE t[1] = "ptr" -> "*" \o TypeString(Tail(t))
           [] t[1] = "slice" -> "[]" \o TypeString(Tail(t))
           [] t[1] = "array" -> "[3]" \o TypeString(Tail(t))
           [] t[1] = "map" -> "map[string]" \o TypeString(Tail(t))

Fields(t) == IF Len(t) = 1 THEN Base[t[1]].fields ELSE <<>>


(***************************************************************************)
(* Scalar classifier and format classifier (package types)                 *)
(***************************************************************************)
\* The seed of the override registry.
SeedMapping ==
    [n \in {"time.Time", "time.Duration", "json.Number"} |->
        CASE n = "time.Time" -> String
          [] n = "time.Duration" -> Integer
          [] n = "json.Number" -> Number]

\* A lookup of a missing key yields the zero ParameterType, which is Unknown.
Get(goType) ==
    IF goType \in DOMAIN ptMapping THEN ptMapping[goType] ELSE Unknown

IntKinds ==
    {"int", "int8", "int16", "int32", "int64",
     "uint", "uint8", "uint16", "uint32", "uint64"}

\* Parse without the pointer unwrapping.
ParseNoUnwrap(t) ==
    IF Get(TypeString(t)) # Unknown THEN Get(TypeString(t))
    ELSE CASE Kind(t) = "bool" -> Boolean
           [] Kind(t) \in {"float32", "float64"} -> Number
           [] Kind(t) \in IntKinds -> Integer
           [] Kind(t) = "string" -> String
           [] Kind(t) \in {"array", "slice"} -> Array
           [] Kind(t) \in {"struct", "map"} -> Object
           [] OTHER -> Unknown

RECURSIVE Parse(_)
Parse(t) ==
    LET kind == Kind(t)
    IN  IF kind = "ptr" THEN Parse(Elem(t))
        ELSE IF Get(TypeString(t)) # Unknown THEN Get(TypeString(t))
        ELSE CASE kind = "bool" -> Boolean
               [] kind \in {"float32", "float64"} -> Number
               [] kind \in IntKinds -> Integer
               [] kind = "string" -> String
               [] kind \in {"array", "slice"} -> Array
               [] kind \in {"struct", "map"} -> Object
               [] OTHER -> Unknown

RECURSIVE ParseFormat(_)
ParseFormat(t) ==
    LET kind == Kind(t)
    IN  IF kind = "ptr" THEN ParseFormat(Elem(t))
        ELSE CASE kind \in {"int", "int8", "int16", "int32",
                            "uint8", "uint16", "uint32"} -> FormatInt32
               [] kind \in {"int64", "uint64"} -> FormatInt64
               [] kind = "float64" -> FormatDouble
               [] kind = "float32" -> FormatFloat
               [] OTHER -> FormatNone

(***************************************************************************)
(* Naming (makeName, makeRef)                                              *)
(***************************************************************************)
\* The derived name of a declared type comes from its declared name; the
\* name of an unnamed container comes from the container type itself.
makeName(t) == IF Len(t) = 1 THEN Base[t[1]].name ELSE TypeString(t)

makeRef(name) == "#/definitions/" \o name

(***************************************************************************)
(* Property inspector (inspect)                                            *)
(***************************************************************************)
\* Of and Coerced are history fields, not fields of the Go struct: Of is the
\* pointer-unwrapped type the property was derived for (GoType loses it for
\* sequences), Coerced says that the field enumerator built the property
\* from a `,string` annotation instead of calling inspect.
RECURSIVE Unwrap(_)
Unwrap(t) == IF Kind(t) = "ptr" THEN Unwrap(Elem(t)) ELSE t

NewProperty(t) ==
    [GoType |-> t, Type |-> "", Format |-> "", Ref |-> "", Items |-> <<>>,
     AdditionalProperties |-> <<>>, Example |-> "", Description |-> "",
     Enum |-> <<>>, Of |-> Unwrap(t), Coerced |-> FALSE]

\* p := Property{GoType: t} with Type and Format classified
Classified(t) ==
    [NewProperty(t) EXCEPT !.Type = Parse(t), !.Format = ParseFormat(t)]

\* InspectKind without `p.Type = ""` in the struct case.
InspectKindKeepType(t, items) ==
    [Classified(t) EXCEPT
        !.Ref = IF Kind(t) = "struct" THEN makeRef(makeName(t)) ELSE @,
        !.AdditionalProperties = IF Kind(t) = "map" THEN <<items>> ELSE @,
        !.GoType = IF Kind(t) \in {"slice", "array"} THEN Elem(t) ELSE @,
        !.Items = IF Kind(t) \in {"slice", "array"} THEN <<items>> ELSE @]

\* The switch of inspect on a type that is no pointer; items is the result
\* of inspect on the element type (read by the map and slice cases only).
InspectKind(t, items) ==
    [Classified(t) EXCEPT
        !.Ref = IF Kind(t) = "struct" THEN makeRef(makeName(t)) ELSE @,
        !.Type = IF Kind(t) = "struct" THEN "" ELSE @,
        !.AdditionalProperties = IF Kind(t) = "map" THEN <<items>> ELSE @,
        !.GoType = IF Kind(t) \in {"slice", "array"} THEN Elem(t) ELSE @,
        !.Items = IF Kind(t) \in {"slice", "array"} THEN <<items>> ELSE @]

RECURSIVE inspect(_)
inspect(t) ==
    IF Kind(t) \in {"ptr", "map", "slice", "array"}
    THEN IF Kind(t) = "ptr" THEN inspect(Elem(t))
         ELSE InspectKind(t, inspect(Elem(t)))
    ELSE InspectKind(t, <<>>)

(***************************************************************************)
(* Field enumerator (buildProperty)                                        *)
(***************************************************************************)
Letters ==
    <<<<"A", "a">>, <<"B", "b">>, <<"C", "c">>, <<"D", "d">>, <<"E", "e">>,
      <<"F", "f">>, <<"G", "g">>, <<"H", "h">>, <<"I", "i">>, <<"J", "j">>,
      <<"K", "k">>, <<"L", "l">>, <<"M", "m">>, <<"N", "n">>, <<"O", "o">>,
      <<"P", "p">>, <<"Q", "q">>, <<"R", "r">>, <<"S", "s">>, <<"T", "t">>,
      <<"U", "u">>, <<"V", "v">>, <<"W", "w">>, <<"X", "x">>, <<"Y", "y">>,
      <<"Z", "z">>>>

\* strings.ToLower on a one-character string
ToLower(c) ==
    IF \E i \in DOMAIN Letters : Letters[i][1] = c
    THEN Letters[CHOOSE i \in DOMAIN Letters : Letters[i][1] = c][2]
    ELSE c

EmptyMap == [k \in {} |-> TRUE]

Put(m, k, v) == [x \in DOMAIN m \cup {k} |-> IF x = k THEN v ELSE m[x]]

\* for name, p := range ps { properties[name] = p }
Splice(properties, ps) ==
    [x \in DOMAIN properties \cup DOMAIN ps |->
        IF x \in DOMAIN ps THEN ps[x] ELSE properties[x]]

\* The external name of a field: the first segment of the json tag, or the
\* declared name when the tag is empty or starts with a comma.
JsonName(field) ==
    IF field.json = <<>> \/ (Len(field.json) > 1 /\ field.json[1] = "")
    THEN field.Name
    ELSE field.json[1]

\* strings.Contains(jsonTag, ",string")
HasStringOption(field) ==
    \E i \in 2..Len(field.json) : field.json[i] = "string"

\* The property of one field: coerced to string or inspected, then overlaid
\* with the example, description, desc and enum tags (desc wins).
BaseProperty(field) ==
    IF HasStringOption(field)
    THEN [NewProperty(field.Type) EXCEPT !.Type = String, !.Coerced = TRUE]
    ELSE inspect(field.Type)

FieldProperty(field) ==
    [BaseProperty(field) EXCEPT
        !.Example = IF field.example # "" THEN field.example ELSE @,
        !.Description = IF field.desc # "" THEN field.desc
                        ELSE IF field.description # "" THEN field.description
                        ELSE @,
        !.Enum = IF field.enum # <<>> THEN field.enum ELSE @]

RECURSIVE buildProperty(_)
\* One iteration of the loop of buildProperty: acc holds properties and
\* required as they are before the field, the result as they are after it.
FieldStep(acc, field) ==
    IF ToLower(field.First) = field.First THEN acc
    ELSE IF field.Anonymous
    THEN [acc EXCEPT
            !.properties = Splice(@, buildProperty(field.Type).properties)]
    ELSE IF JsonName(field) = "-" THEN acc
    ELSE [properties |->
              Put(acc.properties, JsonName(field), FieldProperty(field)),
          required |->
              IF field.required THEN Append(acc.required, JsonName(field))
              ELSE acc.required]

\* The loop of buildProperty from field i on.
RECURSIVE buildFields(_, _, _)
buildFields(t, i, acc) ==
    IF i > Len(Fields(t)) THEN acc
    ELSE buildFields(t, i + 1, FieldStep(acc, Fields(t)[i]))

buildProperty(t) ==
    buildFields(t, 1, [properties |-> EmptyMap, required |-> <<>>])

\* t.NumField() panics on a type that is not a struct; so does the
\* enumeration of a struct that embeds such a type in an exported field.
RECURSIVE buildPropertyPanics(_)
buildPropertyPanics(t) ==
    \/ Kind(t) # "struct"
    \/ \E i \in 1..Len(Fields(t)) :
          /\ ToLower(Fields(t)[i].First) # Fields(t)[i].First
          /\ Fields(t)[i].Anonymous
          /\ buildPropertyPanics(Fields(t)[i].Type)

(***************************************************************************)
(* Object definer (defineObject)                                           *)
(***************************************************************************)
NewObject(name) ==
    [Name |-> name, Type |-> "", Format |-> "", Required |-> <<>>,
     Properties |-> EmptyMap, Items |-> <<>>, AdditionalProperties |-> <<>>]

\* The switch of defineObject on a type that is no pointer; p is the
\* result of inspect (on the element type for a container, on t itself
\* otherwise), built the result of buildProperty (read for a struct only).
DefineKind(t, p, built) ==
    [NewObject(Kind(t)) EXCEPT
        !.Name = IF Kind(t) \in {"slice", "array", "map", "struct"}
                 THEN makeName(t) ELSE @,
        !.Items = IF Kind(t) \in {"slice", "array"} THEN <<p>> ELSE @,
        !.AdditionalProperties = IF Kind(t) = "map" THEN <<p>> ELSE @,
        !.Type = CASE Kind(t) \in {"slice", "array"} -> Array
                   [] Kind(t) \in {"map", "struct"} -> Object
                   [] OTHER -> p.Type,
        !.Format = IF Kind(t) \in {"slice", "array", "map", "struct"}
                   THEN @ ELSE p.Format,
        !.Required = IF Kind(t) = "struct" THEN built.required ELSE @,
        !.Properties = IF Kind(t) = "struct" THEN built.properties ELSE @]

RECURSIVE defineObject(_)
defineObject(t) ==
    IF Kind(t) = "ptr" THEN defineObject(Elem(t))
    ELSE DefineKind(t,
            inspect(IF Kind(t) \in {"slice", "array", "map"}
                    THEN Elem(t) ELSE t),
            buildProperty(t))

defineObjectPanics(t) ==
    Kind(Unwrap(t)) = "struct" /\ buildPropertyPanics(Unwrap(t))

(***************************************************************************)
(* Inputs                                                                  *)
(***************************************************************************)
WrapSeqs == UNION {[1..k -> Wrappers] : k \in 0..MaxDepth}

\* The types a caller hands to the classifiers.
Types == {w \o <<b>> : w \in WrapSeqs, b \in BaseIds}

RootWrappers == {"ptr", "slice", "map"}

RootBases ==
    {"Pet", "Node", "Ping", "Pong", "Time", "Special", "Direct", "Nested",
     "Coerced", "Dup", "Core", "EmbedOK", "EmbedPtr", "EmbedNamed", "Uses",
     "Clash", "R1", "Duration", "JNumber", "MyInt", "Pets",
     "bool", "int", "uint", "float64", "string", "chan", "func", "complex128"}

\* The root types a caller hands to define.
RootTypes ==
    {w \o <<b>> : w \in UNION {[1..k -> RootWrappers] : k \in 0..MaxRootDepth},
                  b \in RootBases}

\* The registrations a caller makes.
Registrations == {<<"pkg.Special", Integer>>, <<"json.Number", Unknown>>}

(***************************************************************************)
(* State machine                                                           *)
(*                                                                         *)
(* pc is the position of the one derivation call in flight: "idle" before  *)
(* define is called, "loop" at the head of `for dirty`, "pass" inside the  *)
(* range over objMap, "done" after define returned, "panic" when a panic   *)
(* unwound it.  pending is the set of keys the range over objMap has yet   *)
(* to produce, cur the object d being visited and propsLeft the keys the   *)
(* range over d.Properties has yet to produce.  inserted, passInserted,    *)
(* run, prevGraph and call are history variables: how often this           *)
(* derivation inserted each name, the number of insertions of the pass,    *)
(* the number of the derivation of this root, the graph the previous       *)
(* derivation of this root returned, and the last classifier call with its *)
(* results.                                                                *)
(***************************************************************************)
Init ==
    /\ ptMapping = SeedMapping
    /\ pc = "idle"
    /\ root = <<>>
    /\ objMap = EmptyMap
    /\ dirty = FALSE
    /\ pending = {}
    /\ cur = <<>>
    /\ propsLeft = {}
    /\ inserted = EmptyMap
    /\ passInserted = 0
    /\ run = 0
    /\ prevGraph = <<>>
    /\ call = <<>>

\* types.Register
Register(goType, pt) ==
    /\ pc = "idle"
    /\ call = <<>>
    /\ ptMapping' = Put(ptMapping, goType, pt)
    /\ UNCHANGED <<call, pc, root, objMap, dirty, pending, cur, propsLeft, inserted,
                   passInserted, run, prevGraph>>

\* A call of types.Parse and types.ParseFormat on the same type; the caller
\* holds the results until it drops them.
Classify(t) ==
    /\ pc = "idle"
    /\ call = <<>>
    /\ call' = <<[type |-> t, kind |-> Parse(t), format |-> ParseFormat(t)]>>
    /\ UNCHANGED <<ptMapping, pc, root, objMap, dirty, pending, cur,
                   propsLeft, inserted, passInserted, run, prevGraph>>

Discard ==
    /\ call # <<>>
    /\ call' = <<>>
    /\ UNCHANGED <<ptMapping, pc, root, objMap, dirty, pending, cur,
                   propsLeft, inserted, passInserted, run, prevGraph>>

\* define, up to the head of the loop: obj, the result of defineObject on
\* the root type t, is inserted, unless defineObject panicked.
SeedWith(t, obj) ==
    /\ root' = t
    /\ pending' = {}
    /\ cur' = <<>>
    /\ propsLeft' = {}
    /\ passInserted' = 0
    /\ IF defineObjectPanics(t)
       THEN /\ pc' = "panic"
            /\ objMap' = EmptyMap
            /\ inserted' = EmptyMap
            /\ dirty' = FALSE
       ELSE /\ pc' = "loop"
            /\ objMap' = Put(EmptyMap, obj.Name, obj)
            /\ inserted' = Put(EmptyMap, obj.Name, 1)
            /\ dirty' = TRUE
    /\ UNCHANGED <<ptMapping, call>>

Seed(t) == SeedWith(t, defineObject(t))

Define(t) ==
    /\ pc = "idle"
    /\ call = <<>>
    /\ run' = 1
    /\ prevGraph' = <<>>
    /\ Seed(t)

\* The same root derived a second time, the first graph kept for comparison.
DefineAgain ==
    /\ pc = "done"
    /\ run = 1
    /\ run' = 2
    /\ prevGraph' = <<objMap>>
    /\ Seed(root)

\* `for dirty { dirty = false; for _, d := range objMap {`
BeginPass ==
    /\ pc = "loop"
    /\ dirty
    /\ dirty' = FALSE
    /\ pending' = DOMAIN objMap
    /\ passInserted' = 0
    /\ pc' = "pass"
    /\ UNCHANGED <<ptMapping, root, objMap, cur, propsLeft, inserted, run,
                   prevGraph, call>>

\* The range over objMap produces its next object d.
NextObject ==
    /\ pc = "pass"
    /\ propsLeft = {}
    /\ \E d \in pending :
          /\ cur' = <<d>>
          /\ propsLeft' = DOMAIN objMap[d].Properties
          /\ pending' = pending \ {d}
    /\ UNCHANGED <<ptMapping, pc, root, objMap, dirty, inserted,
                   passInserted, run, prevGraph, call>>

\* objMap[child.Name] = child
Insert(acc, child) ==
    [objMap |-> Put(acc.objMap, child.Name, child),
     ins |-> Append(acc.ins, child.Name),
     panic |-> FALSE]

\* `for prop != nil { ...; prop = prop.AdditionalProperties }` from prop on,
\* prop being <<>> (nil) or <<a property>>.  acc holds objMap so far, the
\* names inserted so far, and whether defineObject panicked.
RECURSIVE Walk(_, _)
Walk(prop, acc) ==
    IF prop = <<>> THEN acc
    ELSE IF /\ Kind(prop[1].GoType) = "struct"
            /\ makeName(prop[1].GoType) \notin DOMAIN acc.objMap
            /\ defineObjectPanics(prop[1].GoType)
         THEN [acc EXCEPT !.panic = TRUE]
         ELSE Walk(prop[1].AdditionalProperties,
                   IF /\ Kind(prop[1].GoType) = "struct"
                      /\ makeName(prop[1].GoType) \notin DOMAIN acc.objMap
                   THEN Insert(acc, defineObject(prop[1].GoType))
                   ELSE acc)

\* inserted, with one more insertion of every name of the sequence ins.
RECURSIVE Count(_, _)
Count(n, ins) ==
    IF ins = <<>> THEN n
    ELSE Count(Put(n, ins[1], IF ins[1] \in DOMAIN n THEN n[ins[1]] + 1 ELSE 1),
               Tail(ins))

\* The body of the range over d.Properties for the property called name,
\* w being the result of the walk down that property.  A key inserted into
\* objMap while the range over objMap is running is produced by that range
\* or skipped.
VisitWith(name, w) ==
    /\ objMap' = w.objMap
    /\ inserted' = Count(inserted, w.ins)
    /\ passInserted' = passInserted + Len(w.ins)
    /\ dirty' = (dirty \/ w.ins # <<>>)
    /\ IF w.panic
       THEN /\ pc' = "panic"
            /\ pending' = {}
            /\ propsLeft' = {}
            /\ cur' = <<>>
       ELSE /\ pc' = pc
            /\ \E seen \in SUBSET {w.ins[i] : i \in 1..Len(w.ins)} :
                  pending' = pending \cup seen
            /\ propsLeft' = propsLeft \ {name}
            /\ cur' = cur

\* The range over d.Properties produces its next property p.
VisitProperty ==
    /\ pc = "pass"
    /\ \E name \in propsLeft :
          VisitWith(name,
                    Walk(<<objMap[cur[1]].Properties[name]>>,
                         [objMap |-> objMap, ins |-> <<>>, panic |-> FALSE]))
    /\ UNCHANGED <<ptMapping, root, run, prevGraph, call>>

\* The range over objMap is exhausted: back to the head of the loop.
EndPass ==
    /\ pc = "pass"
    /\ propsLeft = {}
    /\ pending = {}
    /\ pc' = "loop"
    /\ cur' = <<>>
    /\ UNCHANGED <<ptMapping, root, objMap, dirty, pending, propsLeft,
                   inserted, passInserted, run, prevGraph, call>>

\* `return objMap`
Return ==
    /\ pc = "loop"
    /\ ~dirty
    /\ pc' = "done"
    /\ UNCHANGED <<ptMapping, root, objMap, dirty, pending, cur, propsLeft,
                   inserted, passInserted, run, prevGraph, call>>

Next ==
    \/ \E r \in Registrations : Register(r[1], r[2])
    \/ \E t \in Types : Classify(t)
    \/ Discard
    \/ \E t \in RootTypes : Define(t)
    \/ DefineAgain
    \/ BeginPass
    \/ NextObject
    \/ VisitProperty
    \/ EndPass
    \/ Return

Spec == Init /\ [][Next]_vars

(***************************************************************************)
(* Properties                                                              *)
(***************************************************************************)
\* A property and every element property below it.
RECURSIVE Below(_)
Below(p) ==
    {p} \cup (IF p.Items # <<>> THEN Below(p.Items[1]) ELSE {})
        \cup (IF p.AdditionalProperties # <<>>
              THEN Below(p.AdditionalProperties[1]) ELSE {})

\* The properties of the field mappings of a graph, element properties
\* included.
FieldProps(g) ==
    UNION {UNION {Below(g[n].Properties[k]) : k \in DOMAIN g[n].Properties} :
              n \in DOMAIN g}

\* The element properties of the objects of a graph (Items and
\* AdditionalProperties of the objects themselves), with those below them.
ElementProps(g) ==
    UNION {IF g[n].Items \o g[n].AdditionalProperties = <<>> THEN {}
           ELSE Below((g[n].Items \o g[n].AdditionalProperties)[1]) :
              n \in DOMAIN g}

\* The reference of p, if it has one, names a key of g.
Resolves(g, p) == p.Ref = "" \/ \E n \in DOMAIN g : makeRef(n) = p.Ref

\* t with its leading pointers removed.
Pointee(t) ==
    SubSeq(t, CHOOSE i \in 1..Len(t) :
                  /\ \A j \in 1..(i - 1) : t[j] = "ptr"
                  /\ (i = Len(t) \/ t[i] # "ptr"),
           Len(t))

\* The kind section 4.1 of the specification gives a structural shape.
ShapeKind(kind) ==
    CASE kind = "bool" -> "boolean"
      [] kind \in {"int", "int8", "int16", "int32", "int64", "uint", "uint8",
                   "uint16", "uint32", "uint64"} -> "integer"
      [] kind \in {"float32", "float64"} -> "number"
      [] kind = "string" -> "string"
      [] kind \in {"array", "slice"} -> "array"
      [] kind \in {"struct", "map"} -> "object"
      [] OTHER -> ""

\* C1: closure completeness over field properties.  Once define has
\* returned for a root record type, every property of every object's field
\* mapping, and every element property below it, that carries a reference
\* refers to a key of the returned graph.
C1_FieldClosure ==
    (pc = "done" /\ Kind(Pointee(root)) = "struct")
        => \A p \in FieldProps(objMap) : Resolves(objMap, p)

\* C2: override precedence.  The property of a field whose type (pointers
\* unwrapped) is registered with a kind other than Unknown has that kind as
\* its Type, also when the type is a struct.
C2_OverridePrecedence ==
    \A n \in DOMAIN objMap : \A k \in DOMAIN objMap[n].Properties :
        LET p == objMap[n].Properties[k]
        IN  (~p.Coerced /\ Get(TypeString(p.Of)) # Unknown)
                => p.Type = Get(TypeString(p.Of))

\* C3: cycle safety and termination.  Once the closure loop has been
\* entered, define stops only by returning after a pass that inserted
\* nothing; no name is inserted twice and the graph holds exactly the
\* inserted names, each with the object of that name.
C3_Termination ==
    /\ (inserted # EmptyMap /\ pc \in {"done", "panic"})
          => (pc = "done" /\ ~dirty /\ passInserted = 0)
    /\ \A n \in DOMAIN inserted : inserted[n] = 1
    /\ pc # "panic" => DOMAIN inserted = DOMAIN objMap
    /\ \A n \in DOMAIN objMap : objMap[n].Name = n

\* C4: determinism.  The second derivation of a root returns the graph the
\* first derivation returned.
C4_Deterministic ==
    (pc = "done" /\ run = 2) => objMap = prevGraph[1]

\* C5: derivation has no failure outcome.  No call of define ends in a
\* panic.
C5_NoFailure == pc # "panic"

\* C6: Parse and ParseFormat are total and pointer-transparent.  A call
\* returns what the call on the pointee returns; Parse returns the registry
\* entry of the pointee when that is not Unknown, and otherwise the kind of
\* the pointee's structural shape, Unknown for every other shape.
C6_Classifiers ==
    call # <<>> =>
        LET c == call[1]
            u == Pointee(c.type)
        IN  /\ c.kind = Parse(u)
            /\ c.format = ParseFormat(u)
            /\ c.kind \in {Unknown, Integer, Number, String, Boolean, Array,
                           Object}
            /\ c.format \in {FormatNone, FormatInt32, FormatInt64,
                             FormatDouble, FormatFloat}
            /\ c.kind = IF TypeString(u) \in DOMAIN ptMapping
                           /\ ptMapping[TypeString(u)] # ""
                        THEN ptMapping[TypeString(u)]
                        ELSE ShapeKind(Kind(u))

\* A call of the classifiers on a pointer to a pointer to a registered
\* struct type has returned the registered kind.
C6_Witness ==
    /\ call # <<>>
    /\ call[1].type = <<"ptr", "ptr", "Time">>
    /\ call[1].kind = String
    /\ call[1].format = FormatNone

\* C7, as claimed: for every property of a field mapping and every element
\* property below it, Ref is set if and only if the type it describes
\* (pointers unwrapped) is a record type, and Type is empty when Ref is set.
C7_RefIffRecord ==
    \A p \in FieldProps(objMap) :
        /\ p.Ref # "" <=> Kind(p.Of) = "struct"
        /\ p.Ref # "" => p.Type = ""

\* C7, amended: the equivalence holds of every property the inspector
\* produced, whether its type is registered or not; a field coerced by
\* `,string` has Type string and no Ref, whatever its type is; and Type is
\* empty whenever Ref is set.
C7_RefIffRecordUnlessCoerced ==
    \A p \in FieldProps(objMap) :
        /\ ~p.Coerced => (p.Ref # "" <=> Kind(p.Of) = "struct")
        /\ p.Coerced => (p.Ref = "" /\ p.Type = String)
        /\ p.Ref # "" => p.Type = ""

\* define has returned a graph in which one record-typed field is coerced
\* by `,string`, another field of a registered record type carries a
\* reference, and a third is a plain scalar.
C7_Witness ==
    /\ pc = "done"
    /\ "Coerced" \in DOMAIN objMap
    /\ {"inner", "At", "Kept"} \subseteq DOMAIN objMap["Coerced"].Properties
    /\ objMap["Coerced"].Properties["inner"].Coerced
    /\ Kind(objMap["Coerced"].Properties["inner"].Of) = "struct"
    /\ objMap["Coerced"].Properties["At"].Ref = makeRef("Time")
    /\ Get(TypeString(objMap["Coerced"].Properties["At"].Of)) = String
    /\ objMap["Coerced"].Properties["Kept"].Ref = ""

\* C8: closure completeness for container roots.  Once define has returned
\* for a root that is a sequence or a mapping, the graph holds the root's
\* object, and every reference of its element property, and of every other
\* property of the graph, refers to a key of the graph.
C8_ContainerRootClosure ==
    (pc = "done" /\ Kind(Pointee(root)) \in {"slice", "array", "map"})
        => /\ makeName(Pointee(root)) \in DOMAIN objMap
           /\ \A p \in ElementProps(objMap) \cup FieldProps(objMap) :
                  Resolves(objMap, p)

\* C9: the required list of every object holds no name twice, and every
\* name in it is a key of the object's field mapping.
C9_RequiredIsSet ==
    \A n \in DOMAIN objMap :
        LET required == objMap[n].Required
        IN  /\ \A i, j \in 1..Len(required) :
                  i # j => required[i] # required[j]
            /\ \A i \in 1..Len(required) :
                  required[i] \in DOMAIN objMap[n].Properties

\* The signed integer kind of the width of an unsigned one.
Signed(kind) ==
    CASE kind = "uint" -> "int"
      [] kind = "uint8" -> "int8"
      [] kind = "uint16" -> "int16"
      [] kind = "uint32" -> "int32"
      [] kind = "uint64" -> "int64"
      [] OTHER -> kind

\* C10: kind and format agree.  For a type with no registry override, the
\* format is int32 or int64 when the kind is integer, float or double when
\* it is number, and none otherwise; an unsigned integer shape gets the
\* format of the signed shape of its width.
C10_KindFormatAgree ==
    (call # <<>> /\ Get(TypeString(Pointee(call[1].type))) = Unknown) =>
        LET c == call[1]
        IN  /\ c.kind = Integer => c.format \in {FormatInt32, FormatInt64}
            /\ c.kind = Number => c.format \in {FormatFloat, FormatDouble}
            /\ c.kind \notin {Integer, Number} => c.format = FormatNone
            /\ Kind(Pointee(c.type)) \in
                    {"uint", "uint8", "uint16", "uint32", "uint64"}
                  => c.format = ParseFormat(<<Signed(Kind(Pointee(c.type)))>>)

=============================================================================
